---- MODULE Spec2Model ----
(***************************************************************************)
(* A model of the transform-and-codegen pipeline of langchain_service.py:  *)
(* transform_for_zkengine (source normalisation), the family dispatch and  *)
(* parameter extraction of generate_wat_from_c_analysis, the artifact      *)
(* orchestration of compile_to_wasm over a file system, and the execution  *)
(* of the emitted WebAssembly text modules on an i32 machine.              *)
(*                                                                         *)
(* Source texts are TLA+ strings handled character by character.  String   *)
(* positions are 1-based; a search that fails returns 0 (Python: -1).      *)
(***************************************************************************)
EXTENDS Integers, Sequences, FiniteSets, TLC

VARIABLES
    nSrc,       \* normaliser: the text of the request
    nCode,      \* normaliser: text returned by the latest transform_for_zkengine
    nChanges,   \* normaliser: change list returned by the latest call
    nPrev,      \* normaliser: text passed to the latest call
    nRuns,      \* normaliser: number of calls made on the text so far
    gCode,      \* generator: the text passed to generate_wat_from_c_analysis
    gWat,       \* generator: the module it returned (NoWat before the call)
    pc,         \* compile_to_wasm: the statement each call is at
    req,        \* compile_to_wasm: the arguments (code, filename) of each call
    wat_content,    \* compile_to_wasm: local of each call (line 469)
    tmpdir,         \* compile_to_wasm: local of each call (line 472)
    unique_id,      \* compile_to_wasm: local of each call (line 475)
    final_wat_path, \* compile_to_wasm: local of each call (line 487)
    result,     \* compile_to_wasm: the dict each call returned
    fsDirs,     \* file system: the directories that exist
    fsFiles,    \* file system: the files that exist, with content and writer
    vmSrc,      \* i32 machine: the text the module was generated from
    vmWat,      \* i32 machine: the module whose exported main is run
    vmPc,       \* i32 machine: the instruction main is at
    vmN,        \* i32 machine: local $n
    vmI,        \* i32 machine: local $i
    vmResult,   \* i32 machine: the value main returned (NoValue before)
    vmLocal     \* i32 machine: the other locals of main, by name

nvars == <<nSrc, nCode, nChanges, nPrev, nRuns>>

gvars == <<gCode, gWat>>

cvars == <<pc, req, wat_content, tmpdir, unique_id, final_wat_path, result,
           fsDirs, fsFiles>>

mvars == <<vmSrc, vmWat, vmPc, vmN, vmI, vmResult, vmLocal>>

vars == <<nvars, gvars, cvars, mvars>>

---------------------------------------------------------------------------
(* Python str primitives                                                   *)

Min(S) == CHOOSE x \in S : \A y \in S : x <= y

Max(S) == CHOOSE x \in S : \A y \in S : x >= y

\* s[i-1] as a one-character string ("" outside the text)
Ch(s, i) == IF i >= 1 /\ i <= Len(s) THEN SubSeq(s, i, i) ELSE ""

\* s[i-1:]
From(s, i) == SubSeq(s, i, Len(s))

\* s[:i]
Upto(s, i) == SubSeq(s, 1, i)

\* s.startswith(pat, i-1)
StartsAt(s, pat, i) ==
    /\ i >= 1
    /\ i + Len(pat) - 1 <= Len(s)
    /\ SubSeq(s, i, i + Len(pat) - 1) = pat

\* s.find(pat, start-1) + 1
Find(s, pat, start) ==
    LET hits == {i \in start..(Len(s) - Len(pat) + 1) : StartsAt(s, pat, i)}
    IN  IF hits = {} THEN 0 ELSE Min(hits)

\* s.rfind(pat) + 1
RFind(s, pat) ==
    LET hits == {i \in 1..(Len(s) - Len(pat) + 1) : StartsAt(s, pat, i)}
    IN  IF hits = {} THEN 0 ELSE Max(hits)

\* pat in s
Contains(s, pat) == \E i \in 1..(Len(s) - Len(pat) + 1) : StartsAt(s, pat, i)

---------------------------------------------------------------------------
(* Character classes of Python's re on the characters the texts use        *)

Digits == {"0", "1", "2", "3", "4", "5", "6", "7", "8", "9"}

LowerCase == {"a", "b", "c", "d", "e", "f", "g", "h", "i", "j", "k", "l", "m",
              "n", "o", "p", "q", "r", "s", "t", "u", "v", "w", "x", "y", "z"}

UpperCase == {"A", "B", "C", "D", "E", "F", "G", "H", "I", "J", "K", "L", "M",
              "N", "O", "P", "Q", "R", "S", "T", "U", "V", "W", "X", "Y", "Z"}

\* \w
IsWord(c) == c \in LowerCase \cup UpperCase \cup Digits \cup {"_"}

\* \s
IsWs(c) == c \in {" ", "\n", "\t"}

\* \d
IsDigit(c) == c \in Digits

\* the position after the longest run of \s starting at i (greedy \s*)
SkipWs(s, i) ==
    LET stops == {j \in i..(Len(s) + 1) : ~IsWs(Ch(s, j))}
    IN  Min(stops)

\* the position after the longest run of \w starting at i (greedy \w*)
SkipWord(s, i) ==
    LET stops == {j \in i..(Len(s) + 1) : ~IsWord(Ch(s, j))}
    IN  Min(stops)

\* the position after the longest run of \d starting at i (greedy \d*)
SkipDigits(s, i) ==
    LET stops == {j \in i..(Len(s) + 1) : ~IsDigit(Ch(s, j))}
    IN  Min(stops)

---------------------------------------------------------------------------
(* The regular expressions of transform_for_zkengine.  MatchEnd(re, s, i)  *)
(* is the position after the match of re that starts at i, 0 if re does    *)
(* not match at i.  No pattern matches the empty string.                   *)

\* \bint\s+ and \bfloat\s+ : the keyword after a non-word character,
\* followed by at least one white-space character
KeywordEnd(s, kw, i) ==
    IF /\ StartsAt(s, kw, i)
       /\ ~IsWord(Ch(s, i - 1))
       /\ IsWs(Ch(s, i + Len(kw)))
    THEN SkipWs(s, i + Len(kw))
    ELSE 0

\* printf\s*\([^;]+\); and scanf\s*\([^;]+\); : [^;]+ runs to the first ';'
\* after the '(' and gives back the ')' right before it
IoCallEnd(s, fn, i) ==
    IF ~StartsAt(s, fn, i) THEN 0
    ELSE LET open == SkipWs(s, i + Len(fn))
             semi == Find(s, ";", open + 1)
         IN  IF /\ Ch(s, open) = "("
                /\ semi > 0
                /\ Ch(s, semi - 1) = ")"
                /\ semi - 2 >= open + 1
             THEN semi + 1
             ELSE 0

\* int32_t\s+main\s*\([^)]*\)
MainSigEnd(s, i) ==
    IF ~(StartsAt(s, "int32_t", i) /\ IsWs(Ch(s, i + 7))) THEN 0
    ELSE LET m == SkipWs(s, i + 7)
             open == SkipWs(s, m + 4)
             close == Find(s, ")", open + 1)
         IN  IF StartsAt(s, "main", m) /\ Ch(s, open) = "(" /\ close > 0
             THEN close + 1
             ELSE 0

\* #include\s*<[^>]+>
IncludeEnd(s, i) ==
    IF ~StartsAt(s, "#include", i) THEN 0
    ELSE LET open == SkipWs(s, i + 8)
             close == Find(s, ">", open + 1)
         IN  IF Ch(s, open) = "<" /\ close >= open + 2
             THEN close + 1
             ELSE 0

\* (\w+)\s*=\s*malloc\([^)]+\) : the position of the '=' and of the ')'
MallocEq(s, i) == SkipWs(s, SkipWord(s, i))

MallocEnd(s, i) ==
    IF ~IsWord(Ch(s, i)) \/ Ch(s, MallocEq(s, i)) # "=" THEN 0
    ELSE LET call == SkipWs(s, MallocEq(s, i) + 1)
             close == Find(s, ")", call + 7)
         IN  IF StartsAt(s, "malloc(", call) /\ close >= call + 8
             THEN close + 1
             ELSE 0

\* free\s*\([^)]+\);
FreeEnd(s, i) ==
    IF ~StartsAt(s, "free", i) THEN 0
    ELSE LET open == SkipWs(s, i + 4)
             close == Find(s, ")", open + 1)
         IN  IF Ch(s, open) = "(" /\ close >= open + 2 /\ Ch(s, close + 1) = ";"
             THEN close + 2
             ELSE 0

MatchEnd(re, s, i) ==
    CASE re = "int"     -> KeywordEnd(s, "int", i)
      [] re = "float"   -> KeywordEnd(s, "float", i)
      [] re = "printf"  -> IoCallEnd(s, "printf", i)
      [] re = "scanf"   -> IoCallEnd(s, "scanf", i)
      [] re = "main"    -> MainSigEnd(s, i)
      [] re = "include" -> IncludeEnd(s, i)
      [] re = "malloc"  -> MallocEnd(s, i)
      [] re = "free"    -> FreeEnd(s, i)

\* \1 = (int32_t*)stack_buffer for the malloc match at i, repl otherwise
Replacement(re, s, i, repl) ==
    IF re = "malloc"
    THEN SubSeq(s, i, SkipWord(s, i) - 1) \o " = (int32_t*)stack_buffer"
    ELSE repl

\* the start of the leftmost match of re at or after position i, 0 if none
NextMatch(re, s, i) ==
    LET starts == {j \in i..Len(s) : MatchEnd(re, s, j) > 0}
    IN  IF starts = {} THEN 0 ELSE Min(starts)

\* re.sub(re, repl, s) from position i on: leftmost non-overlapping matches
RECURSIVE ReSubFrom(_, _, _, _)
ReSubFrom(re, s, repl, i) ==
    LET m == NextMatch(re, s, i)
    IN  IF m = 0 THEN From(s, i)
        ELSE SubSeq(s, i, m - 1) \o Replacement(re, s, m, repl)
                 \o ReSubFrom(re, s, repl, MatchEnd(re, s, m))

ReSub(re, repl, s) == ReSubFrom(re, s, repl, 1)

\* re.search(re, s) is not None
ReSearch(re, s) == NextMatch(re, s, 1) > 0

\* the end of the last match of re.finditer(re, s) from position i on, last
\* if there is none
RECURSIVE LastMatchEnd(_, _, _, _)
LastMatchEnd(re, s, i, last) ==
    LET m == NextMatch(re, s, i)
    IN  IF m = 0 THEN last
        ELSE LastMatchEnd(re, s, MatchEnd(re, s, m), MatchEnd(re, s, m) - 1)

---------------------------------------------------------------------------
(* transform_for_zkengine: each rule maps the pair (code, changes)         *)

StdintInclude == "#include <stdint.h>"

\* lines 109-121
AddStdint(st) ==
    LET code == st.code
        include_pos == RFind(code, "#include")
        newline_pos == Find(code, "\n", include_pos)
    IN  IF /\ ~Contains(code, "int32_t")
           /\ (Contains(code, "int ") \/ Contains(code, "float "))
           /\ ~Contains(code, StdintInclude)
        THEN [code |->
                 IF include_pos > 0
                 THEN IF newline_pos > 0
                      THEN Upto(code, newline_pos) \o StdintInclude \o "\n"
                                \o From(code, newline_pos + 1)
                      ELSE code \o "\n" \o StdintInclude \o "\n"
                 ELSE StdintInclude \o "\n\n" \o code,
              changes |-> Append(st.changes, "Added #include <stdint.h>")]
        ELSE st

\* lines 123-126
ConvertTypes(st) ==
    [code |-> ReSub("float", "int32_t ", ReSub("int", "int32_t ", st.code)),
     changes |-> Append(st.changes, "Converted int/float to int32_t")]

\* lines 128-131
RemovePrintf(st) ==
    IF Contains(st.code, "printf")
    THEN [code |-> ReSub("printf", "/* printf removed */;", st.code),
          changes |-> Append(st.changes, "Removed printf statements")]
    ELSE st

\* lines 133-135
RemoveScanf(st) ==
    IF Contains(st.code, "scanf")
    THEN [code |-> ReSub("scanf", "/* scanf removed */;", st.code),
          changes |-> Append(st.changes, "Removed scanf statements")]
    ELSE st

\* lines 137-143
FixMain(st) ==
    IF ReSearch("main", st.code)
    THEN [code |-> ReSub("main", "int32_t main()", st.code),
          changes |-> Append(st.changes, "Fixed main signature for hardcoded values")]
    ELSE st

\* lines 147-155
DefineBufferSize(code) ==
    LET includes_end == LastMatchEnd("include", code, 1, 0)
    IN  IF Contains(code, "#define BUFFER_SIZE") THEN code
        ELSE IF includes_end > 0
             THEN Upto(code, includes_end) \o "\n#define BUFFER_SIZE 1000\n"
                      \o From(code, includes_end + 1)
             ELSE "#define BUFFER_SIZE 1000\n" \o code

\* lines 160-162: code.find('{', code.find('main')); a start of -1 is the
\* last character of the text, and the brace at index 0 is not used
DeclareStackBuffer(code) ==
    LET main_pos == Find(code, "main", 1)
        start == IF main_pos > 0 THEN main_pos
                 ELSE IF Len(code) > 0 THEN Len(code) ELSE 1
        main_start == Find(code, "{", start)
    IN  IF main_start > 1
        THEN Upto(code, main_start) \o "\n    int32_t stack_buffer[BUFFER_SIZE];\n"
                 \o From(code, main_start + 1)
        ELSE code

\* lines 145-164
ConvertMalloc(st) ==
    IF Contains(st.code, "malloc")
    THEN [code |-> DeclareStackBuffer(
                       ReSub("free", "/* free removed */;",
                           ReSub("malloc", "", DefineBufferSize(st.code)))),
          changes |-> Append(st.changes, "Converted dynamic allocation to stack")]
    ELSE st

\* lines 105-166
transform_for_zkengine(code) ==
    ConvertMalloc(FixMain(RemoveScanf(RemovePrintf(ConvertTypes(AddStdint(
        [code |-> code, changes |-> <<>>]))))))

---------------------------------------------------------------------------
(* generate_wat_from_c_analysis                                            *)

UpperSeq == "ABCDEFGHIJKLMNOPQRSTUVWXYZ"

LowerSeq == "abcdefghijklmnopqrstuvwxyz"

\* str.lower on one character
LowerCh(c) == IF c \in UpperCase THEN Ch(LowerSeq, Find(UpperSeq, c, 1)) ELSE c

\* str.lower
RECURSIVE Lower(_)
Lower(s) ==
    IF Len(s) <= 1 THEN LowerCh(s)
    ELSE Lower(SubSeq(s, 1, Len(s) \div 2))
             \o Lower(SubSeq(s, Len(s) \div 2 + 1, Len(s)))

DigitSeq == "0123456789"

\* int() of a string of decimal digits
RECURSIVE StrToInt(_)
StrToInt(d) ==
    IF d = "" THEN 0
    ELSE 10 * StrToInt(SubSeq(d, 1, Len(d) - 1))
             + (Find(DigitSeq, Ch(d, Len(d)), 1) - 1)

\* len(str(v)) for v >= 0
RECURSIVE DecLen(_)
DecLen(v) == IF v < 10 THEN 1 ELSE 1 + DecLen(v \div 10)

\* re.search gives None
NoMatch == -1

\* <name>\s*=\s*(\d+) matched at i: the position of the first digit, 0 if
\* the pattern does not match at i
AssignDigits(s, name, i) ==
    IF ~StartsAt(s, name, i) THEN 0
    ELSE LET eq == SkipWs(s, i + Len(name))
             d == SkipWs(s, eq + 1)
         IN  IF Ch(s, eq) = "=" /\ IsDigit(Ch(s, d)) THEN d ELSE 0

\* <func>\s*\(\s*(\d+)\s*\) matched at i: the position of the first digit
CallDigits(s, func, i) ==
    IF ~StartsAt(s, func, i) THEN 0
    ELSE LET open == SkipWs(s, i + Len(func))
             d == SkipWs(s, open + 1)
         IN  IF /\ Ch(s, open) = "("
                /\ IsDigit(Ch(s, d))
                /\ Ch(s, SkipWs(s, SkipDigits(s, d))) = ")"
             THEN d
             ELSE 0

\* int(group(1)) of the digits that start at d
GroupInt(s, d) == StrToInt(SubSeq(s, d, SkipDigits(s, d) - 1))

\* re.search(rf'{var}\s*=\s*(\d+)', code): int(match.group(1)) or NoMatch
AssignValue(code, var) ==
    LET starts == {i \in 1..Len(code) : AssignDigits(code, var, i) > 0}
    IN  IF starts = {} THEN NoMatch
        ELSE GroupInt(code, AssignDigits(code, var, Min(starts)))

\* re.search(rf'{func_name}\s*\(\s*(\d+)\s*\)', code)
CallValue(code, func_name) ==
    LET starts == {i \in 1..Len(code) : CallDigits(code, func_name, i) > 0}
    IN  IF starts = {} THEN NoMatch
        ELSE GroupInt(code, CallDigits(code, func_name, Min(starts)))

\* re.search(r'(?:a|x|first)\s*=\s*(\d+)', code): the leftmost position at
\* which an alternative matches, the alternatives tried in order there
AltAssignValue(code, alts) ==
    LET starts == {i \in 1..Len(code) :
                      \E k \in 1..Len(alts) : AssignDigits(code, alts[k], i) > 0}
        m == Min(starts)
        k == Min({j \in 1..Len(alts) : AssignDigits(code, alts[j], m) > 0})
    IN  IF starts = {} THEN NoMatch
        ELSE GroupInt(code, AssignDigits(code, alts[k], m))

\* lines 174-185: for each name in turn, first the assignment of that name,
\* then the call
RECURSIVE extract_value(_, _, _, _)
extract_value(code, var_names, func_name, default) ==
    IF var_names = <<>> THEN default
    ELSE IF AssignValue(code, Head(var_names)) # NoMatch
         THEN AssignValue(code, Head(var_names))
         ELSE IF func_name # "" /\ CallValue(code, func_name) # NoMatch
              THEN CallValue(code, func_name)
              ELSE extract_value(code, Tail(var_names), func_name, default)

\* An emitted module: the template of a family with its constants filled in
Wat(family, args) == [family |-> family, args |-> args]

\* a fallback that emits the GCD module with its defaults
FallBackToGcd == Wat("gcd", <<48, 18>>)

\* lines 456-461
DefaultWat == Wat("default", <<>>)

\* lines 417-420
GcdA(code) ==
    IF AltAssignValue(code, <<"a", "x", "first">>) # NoMatch
    THEN AltAssignValue(code, <<"a", "x", "first">>) ELSE 48

\* a second operand that is read where the first is
GcdBFollowsA(code) ==
    IF AltAssignValue(code, <<"a", "x", "first">>) # NoMatch
    THEN AltAssignValue(code, <<"a", "x", "first">>) ELSE 18

\* lines 418-420
GcdB(code) ==
    IF AltAssignValue(code, <<"b", "y", "second">>) # NoMatch
    THEN AltAssignValue(code, <<"b", "y", "second">>) ELSE 18

\* lines 188-235
PrimeBranch(code) ==
    Wat("prime", <<extract_value(code, <<"number_to_check", "n", "num">>,
                                 "is_prime", 17)>>)

\* lines 238-286
CollatzBranch(code) ==
    Wat("collatz", <<extract_value(code, <<"starting_number", "start", "n">>,
                                   "collatz", 27)>>)

\* lines 289-334
DigitalRootBranch(code) ==
    Wat("digital_root", <<extract_value(code, <<"input_number", "num", "n">>,
                                        "digital_root", 12345)>>)

\* lines 337-378
FibonacciBranch(code) ==
    Wat("fibonacci", <<extract_value(code, <<"n", "num", "value">>,
                                     "fibonacci", 10)>>)

\* lines 381-413
FactorialBranch(code) ==
    Wat("factorial", <<extract_value(code, <<"n", "num", "value">>,
                                     "factorial", 5)>>)

\* lines 416-451
GcdBranch(code) == Wat("gcd", <<GcdA(code), GcdB(code)>>)

\* the chain with the Collatz test moved in front of the primality test
generate_collatz_first(code) ==
    IF Contains(Lower(code), "collatz") THEN CollatzBranch(code)
    ELSE IF Contains(code, "is_prime") THEN PrimeBranch(code)
    ELSE IF Contains(code, "digital_root") \/ Contains(code, "digit_sum")
    THEN DigitalRootBranch(code)
    ELSE IF Contains(code, "fibonacci") THEN FibonacciBranch(code)
    ELSE IF Contains(code, "factorial") THEN FactorialBranch(code)
    ELSE IF Contains(code, "gcd") \/ Contains(code, "greatest_common")
    THEN GcdBranch(code)
    ELSE DefaultWat

\* lines 187-461: the if/elif chain
generate_wat_from_c_analysis(code) ==
    IF Contains(code, "is_prime") THEN PrimeBranch(code)
    ELSE IF Contains(Lower(code), "collatz") THEN CollatzBranch(code)
    ELSE IF Contains(code, "digital_root") \/ Contains(code, "digit_sum")
    THEN DigitalRootBranch(code)
    ELSE IF Contains(code, "fibonacci") THEN FibonacciBranch(code)
    ELSE IF Contains(code, "factorial") THEN FactorialBranch(code)
    ELSE IF Contains(code, "gcd") \/ Contains(code, "greatest_common")
    THEN GcdBranch(code)
    ELSE DefaultWat

\* The bytes of a template without its constants, and the number of places
\* each constant is written to
TemplateBytes(family) ==
    CASE family = "prime"        -> 1147
      [] family = "collatz"      -> 1212
      [] family = "digital_root" -> 1227
      [] family = "fibonacci"    -> 959
      [] family = "factorial"    -> 767
      [] family = "gcd"          -> 693
      [] family = "default"      -> 111

ConstantSlots(family) == IF family = "prime" THEN 3 ELSE 2

RECURSIVE SumDecLen(_)
SumDecLen(args) ==
    IF args = <<>> THEN 0 ELSE DecLen(Head(args)) + SumDecLen(Tail(args))

\* line 494: len(wat_content.encode('utf-8'))
WatBytes(wat) ==
    TemplateBytes(wat.family) + ConstantSlots(wat.family) * SumDecLen(wat.args)

---------------------------------------------------------------------------
(* Texts                                                                   *)

RECURSIVE Concat(_)
Concat(fs) == IF fs = <<>> THEN "" ELSE Head(fs) \o Concat(Tail(fs))

RECURSIVE JoinWith(_, _)
JoinWith(sep, ws) ==
    IF ws = <<>> THEN ""
    ELSE IF Len(ws) = 1 THEN ws[1]
    ELSE ws[1] \o sep \o JoinWith(sep, Tail(ws))

\* the entries of pool whose index is in S, in the order of the pool
RECURSIVE PickFrom(_, _, _)
PickFrom(pool, S, i) ==
    IF i > Len(pool) THEN <<>>
    ELSE (IF i \in S THEN <<pool[i]>> ELSE <<>>) \o PickFrom(pool, S, i + 1)

Pick(pool, S) == PickFrom(pool, S, 1)

Reverse(seq) == [i \in 1..Len(seq) |-> seq[Len(seq) + 1 - i]]

FragSeqs(pool, n) == UNION {[1..k -> pool] : k \in 0..n}

---------------------------------------------------------------------------
(* The normaliser's requests                                               *)

MaxFrags == 2

MaxRuns == 2

NormFragments ==
    {"int x;\n", "float y;", "#include <a.h>\n", "#include <stdint.h>\n",
     "printf(x);", "scanf(x);", "int main(int c) {", "p = malloc(4);",
     "free(p);", "print x;", "p = (int*)malloc(4);", "int32_t z;", "int\ty;",
     "printf_n = scanf_n;"}

NormTexts == {Concat(fs) : fs \in FragSeqs(NormFragments, MaxFrags)}

NormStart ==
    /\ nSrc \in NormTexts
    /\ nCode = nSrc
    /\ nChanges = <<>>
    /\ nPrev = nSrc
    /\ nRuns = 0

NormIdle ==
    /\ nSrc = ""
    /\ nCode = ""
    /\ nChanges = <<>>
    /\ nPrev = ""
    /\ nRuns = 0

\* POST /api/transform-code with auto_transform on the text returned last
Normalize ==
    /\ nRuns < MaxRuns
    /\ nPrev' = nCode
    /\ nCode' = transform_for_zkengine(nCode).code
    /\ nChanges' = transform_for_zkengine(nCode).changes
    /\ nRuns' = nRuns + 1
    /\ UNCHANGED nSrc

---------------------------------------------------------------------------
(* The texts given to the generator: the cue words of a set of families,   *)
(* in either order, followed by a call argument and assignments            *)

MaxParams == 3

CueWords == <<"gcd", "factorial", "fibonacci", "digit_sum", "collatz", "is_prime">>

ParamPool == <<"(99);", " num = 7;", " n = 5;", " number_to_check = 23;",
               " start = 3;", " starting_number = 6;", " input_number = 98;",
               " value = 9;">>

GenShapes ==
    {sh \in (SUBSET (1..Len(CueWords))) \X (SUBSET (1..Len(ParamPool))) \X BOOLEAN :
        /\ Cardinality(sh[2]) <= MaxParams
        /\ Cardinality(sh[1]) <= 1 \/ Cardinality(sh[2]) <= 1}

GenText(sh) ==
    JoinWith(" ", IF sh[3] THEN Reverse(Pick(CueWords, sh[1]))
                  ELSE Pick(CueWords, sh[1]))
        \o Concat(Pick(ParamPool, sh[2]))

\* cue words in other letter cases
CaseTexts == {"Collatz n = 6;", "COLLATZ start = 3;", "Digit_Sum num = 38;",
              "DIGITAL_ROOT", "Is_Prime(7)", "FIBONACCI n = 5;",
              "Factorial(4)", "GCD a = 4; b = 6;", "Greatest_Common"}

GenTexts == {GenText(sh) : sh \in GenShapes} \cup CaseTexts

NoWat == Wat("none", <<>>)

GenStart ==
    /\ gCode \in GenTexts
    /\ gWat = NoWat

GenIdle ==
    /\ gCode = ""
    /\ gWat = NoWat

\* a call of generate_wat_from_c_analysis(code)
Generate ==
    /\ gWat = NoWat
    /\ gWat' = generate_wat_from_c_analysis(gCode)
    /\ UNCHANGED gCode

---------------------------------------------------------------------------
(* The catalogue of families, as the claims name it                        *)

Priority == <<"prime", "collatz", "digital_root", "fibonacci", "factorial", "gcd">>

UnaryFamilies == {"prime", "collatz", "digital_root", "fibonacci", "factorial"}

\* the detection predicate of a family
CuePresent(family, code) ==
    CASE family = "prime"        -> Contains(code, "is_prime")
      [] family = "collatz"      -> Contains(Lower(code), "collatz")
      [] family = "digital_root" -> Contains(code, "digital_root")
                                        \/ Contains(code, "digit_sum")
      [] family = "fibonacci"    -> Contains(code, "fibonacci")
      [] family = "factorial"    -> Contains(code, "factorial")
      [] family = "gcd"          -> Contains(code, "gcd")
                                        \/ Contains(code, "greatest_common")

CandidateNames(family) ==
    CASE family = "prime"        -> <<"number_to_check", "n", "num">>
      [] family = "collatz"      -> <<"starting_number", "start", "n">>
      [] family = "digital_root" -> <<"input_number", "num", "n">>
      [] family = "fibonacci"    -> <<"n", "num", "value">>
      [] family = "factorial"    -> <<"n", "num", "value">>

FamilyFunction(family) ==
    CASE family = "prime"        -> "is_prime"
      [] family = "collatz"      -> "collatz"
      [] family = "digital_root" -> "digital_root"
      [] family = "fibonacci"    -> "fibonacci"
      [] family = "factorial"    -> "factorial"

FamilyDefault(family) ==
    CASE family = "prime"        -> 17
      [] family = "collatz"      -> 27
      [] family = "digital_root" -> 12345
      [] family = "fibonacci"    -> 10
      [] family = "factorial"    -> 5

CuesIn(code) == {k \in 1..Len(Priority) : CuePresent(Priority[k], code)}

\* the highest-priority family whose cue the text contains
TopFamily(code) ==
    IF CuesIn(code) = {} THEN "default" ELSE Priority[Min(CuesIn(code))]

\* the module of a family with the parameter its own catalogue entry extracts
CatalogWat(family, code) ==
    IF family \in UnaryFamilies
    THEN Wat(family, <<extract_value(code, CandidateNames(family),
                                     FamilyFunction(family), FamilyDefault(family))>>)
    ELSE IF family = "gcd" THEN Wat("gcd", <<GcdA(code), GcdB(code)>>)
    ELSE DefaultWat

AssignedCandidates(code, names) ==
    {k \in 1..Len(names) : AssignValue(code, names[k]) # NoMatch}

\* the value the stated precedence gives: the highest-priority assigned
\* candidate, else the call argument, else the default
PrecedenceValue(code, family) ==
    LET names == CandidateNames(family)
        assigned == AssignedCandidates(code, names)
    IN  IF assigned # {} THEN AssignValue(code, names[Min(assigned)])
        ELSE IF CallValue(code, FamilyFunction(family)) # NoMatch
             THEN CallValue(code, FamilyFunction(family))
             ELSE FamilyDefault(family)

---------------------------------------------------------------------------
(* The file system: a path is the sequence of its components from the      *)
(* root; fsDirs holds the directories, fsFiles maps each file to its       *)
(* content and to the call that wrote it last                              *)

Front(seq) == SubSeq(seq, 1, Len(seq) - 1)

Last(seq) == seq[Len(seq)]

IsPrefix(p, q) == Len(p) <= Len(q) /\ SubSeq(q, 1, Len(p)) = p

\* str.split('/')
RECURSIVE SplitFrom(_, _)
SplitFrom(s, i) ==
    LET j == Find(s, "/", i)
    IN  IF j = 0 THEN <<From(s, i)>>
        ELSE <<SubSeq(s, i, j - 1)>> \o SplitFrom(s, j + 1)

Split(s) == SplitFrom(s, 1)

\* os.path.join(a, b)
PathJoin(a, b) ==
    IF StartsAt(b, "/", 1) \/ a = "" THEN b
    ELSE IF Ch(a, Len(a)) = "/" THEN a \o b
    ELSE a \o "/" \o b

\* the walk of the kernel over the components of an absolute path: every
\* directory passed through must exist; ok is FALSE where one does not
RECURSIVE Walk(_, _, _)
Walk(comps, cur, dirs) ==
    IF cur \notin dirs THEN [ok |-> FALSE, at |-> cur]
    ELSE IF comps = <<>> THEN [ok |-> TRUE, at |-> cur]
    ELSE IF Head(comps) \in {"", "."} THEN Walk(Tail(comps), cur, dirs)
    ELSE IF Head(comps) = ".."
         THEN Walk(Tail(comps), IF cur = <<>> THEN cur ELSE Front(cur), dirs)
         ELSE Walk(Tail(comps), Append(cur, Head(comps)), dirs)

\* open(path, 'w'): the file it creates or truncates; ok is FALSE when the
\* directory of the file does not exist or the path names a directory
OpenTarget(path, dirs) ==
    LET comps == Split(path)
        parent == Walk(Front(comps), <<>>, dirs)
        name == Last(comps)
    IN  IF parent.ok /\ name \notin {"", ".", ".."}
           /\ Append(parent.at, name) \notin dirs
        THEN [ok |-> TRUE, at |-> Append(parent.at, name)]
        ELSE [ok |-> FALSE, at |-> <<>>]

\* the directories os.makedirs(path, exist_ok=True) leaves in place
MakeDirsOf(path, dirs) ==
    LET comps == SelectSeq(Split(path), LAMBDA x : x # "")
    IN  dirs \cup {SubSeq(comps, 1, k) : k \in 0..Len(comps)}

\* what shutil.rmtree(dir) leaves of a set of paths
Outside(dir, paths) == {q \in paths : ~IsPrefix(dir, q)}

\* str.replace(old, new)
RECURSIVE Replace(_, _, _)
Replace(s, old, new) ==
    LET i == Find(s, old, 1)
    IN  IF i = 0 THEN s
        ELSE Upto(s, i - 1) \o new \o Replace(From(s, i + Len(old)), old, new)

---------------------------------------------------------------------------
(* compile_to_wasm and POST /api/compile-transformed                       *)

MaxCalls == 2

Calls == 1..MaxCalls

\* the environment: $HOME, the directory of tempfile, the first hex digits
\* uuid4 can give, and the names mkdtemp can draw
HomeDir == "/home/user"

TmpRoot == "/tmp"

UuidPool == {"3f2a91c0", "b07d44e9"}

TmpNames == [c \in Calls |-> "tmp" \o Ch(LowerSeq, c) \o "k3x9"]

CompileCodes == {"int main() { return 0; }", "is_prime(17)"}

FileNames == {"gcd.c", "../a.c.c", "d/x.c"}

\* line 483
wasm_dir == HomeDir \o "/agentkit/zkengine/example_wasms"

WasmDirPath == SelectSeq(Split(wasm_dir), LAMBDA x : x # "")

\* line 474
base_name(filename) == Replace(filename, ".c", "")

\* lines 476 and 486: f"{base_name}_{unique_id}.wat"
WatName(filename, uid) == base_name(filename) \o "_" \o uid \o ".wat"

\* line 469: the module is generated from the code argument alone
compile_wat_with_filename(code, filename) ==
    generate_wat_from_c_analysis(code \o " " \o filename)

compile_wat(code, filename) == generate_wat_from_c_analysis(code)

NoResult == [pending |-> TRUE]

NoRequest == [code |-> "", filename |-> ""]

NoLocals == [c \in Calls |-> ""]

CompStart ==
    /\ pc = [c \in Calls |-> "idle"]
    /\ req = [c \in Calls |-> NoRequest]
    /\ wat_content = [c \in Calls |-> NoWat]
    /\ tmpdir = NoLocals
    /\ unique_id = NoLocals
    /\ final_wat_path = NoLocals
    /\ result = [c \in Calls |-> NoResult]
    /\ fsDirs = {<<>>, <<"tmp">>, <<"home">>, <<"home", "user">>}
    /\ fsFiles = <<>>

\* line 506: the classes `except Exception` catches, of those raised here
except_only_missing(exc) == exc = "FileNotFoundError"

except_Exception(exc) == exc \in {"OSError", "FileNotFoundError"}

PathOf(dir) == SelectSeq(Split(dir), LAMBDA x : x # "")

\* an exit of the with block that leaves the workspace in place
KeepWorkspace(c, paths) == paths

\* the exit of the with block (TemporaryDirectory.cleanup): what is left of
\* a set of paths once the workspace of call c is removed
LeaveWith(c, paths) ==
    IF tmpdir[c] = "" THEN paths ELSE Outside(PathOf(tmpdir[c]), paths)

\* the locals of the call end with it
EndCall(c) ==
    /\ wat_content' = [wat_content EXCEPT ![c] = NoWat]
    /\ tmpdir' = [tmpdir EXCEPT ![c] = ""]
    /\ unique_id' = [unique_id EXCEPT ![c] = ""]
    /\ final_wat_path' = [final_wat_path EXCEPT ![c] = ""]

\* lines 506-513: an exception leaves the with block (when it was entered)
\* and reaches the except clause, which returns the failure
Raise(c, exc) ==
    /\ fsDirs' = LeaveWith(c, fsDirs)
    /\ fsFiles' = [q \in LeaveWith(c, DOMAIN fsFiles) |-> fsFiles[q]]
    /\ IF except_Exception(exc)
       THEN /\ pc' = [pc EXCEPT ![c] = "done"]
            /\ result' = [result EXCEPT ![c] = [success |-> FALSE, error |-> exc]]
       ELSE /\ pc' = [pc EXCEPT ![c] = "crashed"]
            /\ UNCHANGED result
    /\ EndCall(c)
    /\ UNCHANGED req

\* lines 463-469: the call starts and generates the module.  The coroutine
\* holds no await (lines 463-513), so the event loop of the one server
\* process (line 1001) starts a call only when none is under way.
Call(c) ==
    /\ pc[c] = "idle"
    /\ \A d \in Calls : d < c => pc[d] \in {"done", "crashed"}
    /\ \E code \in CompileCodes, filename \in FileNames :
          /\ req' = [req EXCEPT ![c] = [code |-> code, filename |-> filename]]
          /\ wat_content' = [wat_content EXCEPT ![c] = compile_wat(code, filename)]
    /\ pc' = [pc EXCEPT ![c] = "mkdtemp"]
    /\ UNCHANGED <<tmpdir, unique_id, final_wat_path, result, fsDirs, fsFiles>>

\* mkdtemp draws names until one does not exist yet
FreshTmpName == TmpNames[Min({k \in Calls : <<"tmp", TmpNames[k]>> \notin fsDirs})]

\* line 472: tempfile.TemporaryDirectory()
MakeTmp(c) ==
    /\ pc[c] = "mkdtemp"
    /\ tmpdir' = [tmpdir EXCEPT ![c] = PathJoin(TmpRoot, FreshTmpName)]
    /\ fsDirs' = fsDirs \cup {<<"tmp", FreshTmpName>>}
    /\ pc' = [pc EXCEPT ![c] = "tmpwrite"]
    /\ UNCHANGED <<req, wat_content, unique_id, final_wat_path, result, fsFiles>>

MakeTmpFails(c) ==
    /\ pc[c] = "mkdtemp"
    /\ Raise(c, "OSError")

\* lines 474-480: the name is drawn and the module written to the workspace
WriteTmp(c) ==
    /\ pc[c] = "tmpwrite"
    /\ \E uid \in UuidPool :
          LET wat_file == PathJoin(tmpdir[c], WatName(req[c].filename, uid))
              target == OpenTarget(wat_file, fsDirs)
          IN  IF target.ok
              THEN /\ unique_id' = [unique_id EXCEPT ![c] = uid]
                   /\ fsFiles' = (target.at :> [content |-> wat_content[c],
                                                writer |-> c]) @@ fsFiles
                   /\ pc' = [pc EXCEPT ![c] = "makedirs"]
                   /\ UNCHANGED <<req, wat_content, tmpdir, final_wat_path,
                                  result, fsDirs>>
              ELSE Raise(c, "FileNotFoundError")

WriteTmpFails(c) ==
    /\ pc[c] = "tmpwrite"
    /\ Raise(c, "OSError")

\* lines 483-484: os.makedirs(wasm_dir, exist_ok=True)
MakeDirs(c) ==
    /\ pc[c] = "makedirs"
    /\ fsDirs' = MakeDirsOf(wasm_dir, fsDirs)
    /\ pc' = [pc EXCEPT ![c] = "open"]
    /\ UNCHANGED <<req, wat_content, tmpdir, unique_id, final_wat_path, result,
                   fsFiles>>

MakeDirsFails(c) ==
    /\ pc[c] = "makedirs"
    /\ Raise(c, "OSError")

\* lines 486-490: open(final_wat_path, 'w') creates or truncates the file
OpenFinal(c) ==
    /\ pc[c] = "open"
    /\ LET path == PathJoin(wasm_dir, WatName(req[c].filename, unique_id[c]))
           target == OpenTarget(path, fsDirs)
       IN  IF target.ok
           THEN /\ final_wat_path' = [final_wat_path EXCEPT ![c] = path]
                /\ fsFiles' = (target.at :> [content |-> NoWat, writer |-> c])
                                  @@ fsFiles
                /\ pc' = [pc EXCEPT ![c] = "write"]
                /\ UNCHANGED <<req, wat_content, tmpdir, unique_id, result, fsDirs>>
           ELSE Raise(c, "FileNotFoundError")

OpenFinalFails(c) ==
    /\ pc[c] = "open"
    /\ Raise(c, "OSError")

\* line 491: f.write(wat_content) and the close of the file
WriteFinal(c) ==
    /\ pc[c] = "write"
    /\ LET target == OpenTarget(final_wat_path[c], fsDirs)
       IN  fsFiles' = (target.at :> [content |-> wat_content[c], writer |-> c])
                          @@ fsFiles
    /\ pc' = [pc EXCEPT ![c] = "return"]
    /\ UNCHANGED <<req, wat_content, tmpdir, unique_id, final_wat_path, result,
                   fsDirs>>

WriteFinalFails(c) ==
    /\ pc[c] = "write"
    /\ Raise(c, "OSError")

\* lines 493-504: the result is built and the with block left
Return(c) ==
    /\ pc[c] = "return"
    /\ result' = [result EXCEPT ![c] =
           [success |-> TRUE,
            wat_content |-> wat_content[c],
            wasm_file |-> WatName(req[c].filename, unique_id[c]),
            wasm_size |-> WatBytes(wat_content[c])]]
    /\ fsDirs' = LeaveWith(c, fsDirs)
    /\ fsFiles' = [q \in LeaveWith(c, DOMAIN fsFiles) |-> fsFiles[q]]
    /\ pc' = [pc EXCEPT ![c] = "done"]
    /\ EndCall(c)
    /\ UNCHANGED req

\* lines 931-953: the response built from the dict compile_to_wasm returned
compile_transformed(res) ==
    IF res.success
    THEN [success |-> TRUE, wat_content |-> res.wat_content,
          wasm_file |-> res.wasm_file, wasm_size |-> res.wasm_size]
    ELSE [success |-> FALSE,
          error |-> IF "error" \in DOMAIN res THEN res.error
                    ELSE "Unknown compilation error"]

---------------------------------------------------------------------------
(* The i32 machine: WebAssembly's 32-bit integers are the values           *)
(* -2^31 .. 2^31 - 1; arithmetic wraps modulo 2^32.  Sums and products are *)
(* formed on four 8-bit limbs so that no intermediate value leaves that    *)
(* range.                                                                  *)

MaxInt32 == 2147483647

MinInt32 == -2147483647 - 1

\* the four bytes of a value, least significant first (two's complement)
Limbs(a) ==
    LET r == IF a >= 0 THEN a ELSE (a + MaxInt32) + 1
        top == (r \div 16777216) + (IF a >= 0 THEN 0 ELSE 128)
    IN  <<r % 256, (r \div 256) % 256, (r \div 65536) % 256, top>>

FromLimbs(l) ==
    (IF l[4] >= 128 THEN l[4] - 256 ELSE l[4]) * 16777216
        + l[3] * 65536 + l[2] * 256 + l[1]

\* carry propagation over four limb sums, the carry out of the top dropped
Carry(p) ==
    LET s1 == p[1]
        s2 == p[2] + (s1 \div 256)
        s3 == p[3] + (s2 \div 256)
        s4 == p[4] + (s3 \div 256)
    IN  <<s1 % 256, s2 % 256, s3 % 256, s4 % 256>>

\* i32.add (line 227)
I32Add(a, b) ==
    LET x == Limbs(a)
        y == Limbs(b)
    IN  FromLimbs(Carry([k \in 1..4 |-> x[k] + y[k]]))

\* i32.mul (line 219)
I32Mul(a, b) ==
    LET x == Limbs(a)
        y == Limbs(b)
    IN  FromLimbs(Carry(<<x[1] * y[1],
                          x[1] * y[2] + x[2] * y[1],
                          x[1] * y[3] + x[2] * y[2] + x[3] * y[1],
                          x[1] * y[4] + x[2] * y[3] + x[3] * y[2] + x[4] * y[1]>>))

\* i32.rem_s (lines 209, 222) for a divisor other than 0: the remainder has
\* the sign of the dividend
I32RemS(a, b) ==
    IF b = MinInt32 THEN (IF a = MinInt32 THEN 0 ELSE a)
    ELSE LET m == IF b < 0 THEN -b ELSE b
             r == a % m
         IN  IF a >= 0 \/ r = 0 THEN r ELSE r - m

\* i32.lt_s (line 199), i32.gt_s (line 219), i32.eq (lines 204, 209, 222)
I32LtS(a, b) == a < b

I32GtS(a, b) == a > b

I32Eq(a, b) == a = b

\* i32.le_s (lines 351, 372, 407)
I32LeS(a, b) == a <= b

\* i32.div_s (lines 263, 319) for a divisor greater than 0, as the divisors
\* of the modules are (2 and 10): the quotient is rounded towards 0
I32DivS(a, b) ==
    IF a >= 0 \/ a % b = 0 THEN a \div b ELSE (a \div b) + 1

\* line 459: the body of the stub's main
DefaultBody == <<[op |-> "i32.const", arg |-> 42]>>

\* a body of constants run on the operand stack; the function returns the
\* value left on top
RECURSIVE RunBody(_, _)
RunBody(body, stack) ==
    IF body = <<>> THEN Last(stack)
    ELSE RunBody(Tail(body), Append(stack, Head(body).arg))

\* the value main of the stub returns (lines 456-461)
DefaultMain == RunBody(DefaultBody, <<>>)

NoValue == "none"

\* n is a prime number
IsPrime(n) == n >= 2 /\ \A d \in 2..n : d * d > n \/ n % d # 0 \/ d = n

\* decimal digits of a natural number
RECURSIVE Dec(_)
Dec(n) ==
    IF n < 10 THEN Ch(DigitSeq, n + 1)
    ELSE Dec(n \div 10) \o Ch(DigitSeq, (n % 10) + 1)

MaxN == 120

MaxCandidate == 46343

\* the texts of the primality module and of the stub
PrimeTexts ==
    {"is_prime(" \o Dec(n) \o ")" : n \in 0..MaxN}
        \cup {"is_prime(" \o Dec(MaxInt32) \o ")",
              "num = 91; is_prime(num)",
              "int main() { return 0; }"}

\* the texts of the Collatz module: every small starting value, the
\* default, and a starting value whose trajectory leaves the i32 range
CollatzTexts ==
    {"Collatz starting_number = " \o Dec(n) : n \in 0..MaxN}
        \cup {"collatz()", "COLLATZ start = 113383", "collatz n = 6"}

MaxOperand == 12

\* the forms in which a text assigns the operands of the GCD module
FirstOperandForms ==
    {""} \cup {" a = " \o Dec(k) \o ";" : k \in 0..MaxOperand}
         \cup {" a = 48;", " x = 1071;", " first = 17;"}

SecondOperandForms ==
    {""} \cup {" b = " \o Dec(k) \o ";" : k \in 0..MaxOperand}
         \cup {" y = 462;", " second = 51;"}

\* the texts of the GCD module, the operands in either order
GcdTexts ==
    {"gcd" \o f \o g : f \in FirstOperandForms, g \in SecondOperandForms}
        \cup {"gcd" \o g \o f : f \in FirstOperandForms, g \in SecondOperandForms}

\* the texts of the digital-root module: every small value, the default,
\* and the largest i32 value
DigitalRootTexts ==
    {"digital_root input_number = " \o Dec(n) \o ";" : n \in 0..MaxN}
        \cup {"digit_sum()", "digit_sum num = 98765;",
              "digital_root(" \o Dec(MaxInt32) \o ")",
              "digital_root n = 999999999;"}

MaxFibN == 48

\* the texts of the Fibonacci module: the default and every n up to the
\* first ones whose Fibonacci number leaves the i32 range
FibonacciTexts ==
    {"fibonacci n = " \o Dec(n) \o ";" : n \in 0..MaxFibN}
        \cup {"fibonacci()", "fibonacci(7)", "fibonacci value = 3;"}

MaxFactN == 14

\* the texts of the factorial module: the default and every n up to the
\* first ones whose factorial leaves the i32 range
FactorialTexts ==
    {"factorial n = " \o Dec(n) \o ";" : n \in 0..MaxFactN}
        \cup {"factorial()", "factorial(4)", "factorial num = 3;"}

\* the texts whose modules are run
VmTexts ==
    PrimeTexts \cup CollatzTexts \cup GcdTexts \cup DigitalRootTexts
        \cup FibonacciTexts \cup FactorialTexts

\* the locals of the modules other than $n and $i; a local starts at 0
LocalNames == {"steps", "sum", "digit", "a", "b", "temp", "result"}

ZeroLocals == [x \in LocalNames |-> 0]

VmIdle ==
    /\ vmSrc = ""
    /\ vmWat = NoWat
    /\ vmPc = "off"
    /\ vmN = 0
    /\ vmI = 0
    /\ vmResult = NoValue
    /\ vmLocal = ZeroLocals

\* the module generated for a text is instantiated and main called; the
\* locals of a function start at 0
VmStart ==
    /\ vmSrc \in VmTexts
    /\ vmWat = generate_wat_from_c_analysis(vmSrc)
    /\ vmPc = "main"
    /\ vmN = 0
    /\ vmI = 0
    /\ vmResult = NoValue
    /\ vmLocal = ZeroLocals

VmReturn(v) ==
    /\ vmResult' = v
    /\ vmPc' = "returned"
    /\ UNCHANGED <<vmSrc, vmWat, vmN, vmI, vmLocal>>

\* line 196: (local.set $n (i32.const {value}))
PrimeSetN ==
    /\ vmWat.family = "prime" /\ vmPc = "main"
    /\ vmN' = vmWat.args[1]
    /\ vmPc' = "lt2"
    /\ UNCHANGED <<vmSrc, vmWat, vmI, vmResult, vmLocal>>

\* lines 199-201
PrimeLessThanTwo ==
    /\ vmWat.family = "prime" /\ vmPc = "lt2"
    /\ IF I32LtS(vmN, 2) THEN VmReturn(0)
       ELSE vmPc' = "eq2" /\ UNCHANGED <<vmSrc, vmWat, vmN, vmI, vmResult, vmLocal>>

\* lines 204-206
PrimeEqualsTwo ==
    /\ vmWat.family = "prime" /\ vmPc = "eq2"
    /\ IF I32Eq(vmN, 2) THEN VmReturn(1)
       ELSE vmPc' = "even" /\ UNCHANGED <<vmSrc, vmWat, vmN, vmI, vmResult, vmLocal>>

\* lines 209-211
PrimeEven ==
    /\ vmWat.family = "prime" /\ vmPc = "even"
    /\ IF I32Eq(I32RemS(vmN, 2), 0) THEN VmReturn(0)
       ELSE vmPc' = "seti" /\ UNCHANGED <<vmSrc, vmWat, vmN, vmI, vmResult, vmLocal>>

\* line 214: (local.set $i (i32.const 3))
PrimeSetI ==
    /\ vmWat.family = "prime" /\ vmPc = "seti"
    /\ vmI' = 3
    /\ vmPc' = "loop"
    /\ UNCHANGED <<vmSrc, vmWat, vmN, vmResult, vmLocal>>

\* lines 216-229: one pass of the loop
PrimeLoop ==
    /\ vmWat.family = "prime" /\ vmPc = "loop"
    /\ vmI <= MaxCandidate
    /\ IF I32GtS(I32Mul(vmI, vmI), vmN)
       THEN vmPc' = "exit" /\ UNCHANGED <<vmSrc, vmWat, vmN, vmI, vmResult, vmLocal>>
       ELSE IF I32Eq(I32RemS(vmN, vmI), 0)
       THEN VmReturn(0)
       ELSE /\ vmI' = I32Add(vmI, 2)
            /\ UNCHANGED <<vmSrc, vmWat, vmPc, vmN, vmResult, vmLocal>>

\* line 233: (i32.const 1) ends the function
PrimeIsPrime ==
    /\ vmWat.family = "prime" /\ vmPc = "exit"
    /\ VmReturn(1)

\* lines 456-461: main of the stub
StubMain ==
    /\ vmWat.family = "default" /\ vmPc = "main"
    /\ VmReturn(DefaultMain)

\* lines 246-247: $n and $steps are set
CollatzInit ==
    /\ vmWat.family = "collatz" /\ vmPc = "main"
    /\ vmN' = vmWat.args[1]
    /\ vmLocal' = [vmLocal EXCEPT !["steps"] = 0]
    /\ vmPc' = "loop"
    /\ UNCHANGED <<vmSrc, vmWat, vmI, vmResult>>

\* lines 250-279: one pass of the loop
CollatzLoop ==
    /\ vmWat.family = "collatz" /\ vmPc = "loop"
    /\ IF I32Eq(vmN, 1) \/ I32GtS(vmLocal["steps"], 1000)
       THEN vmPc' = "exit" /\ UNCHANGED <<vmSrc, vmWat, vmN, vmI, vmResult, vmLocal>>
       ELSE /\ vmN' = IF I32Eq(I32RemS(vmN, 2), 0)
                      THEN I32DivS(vmN, 2)
                      ELSE I32Add(I32Mul(vmN, 3), 1)
            /\ vmLocal' = [vmLocal EXCEPT !["steps"] = I32Add(vmLocal["steps"], 1)]
            /\ UNCHANGED <<vmSrc, vmWat, vmPc, vmI, vmResult>>

\* line 283: (local.get $steps) ends the function
CollatzSteps ==
    /\ vmWat.family = "collatz" /\ vmPc = "exit"
    /\ VmReturn(vmLocal["steps"])

\* lines 429-430: $a and $b are set
GcdInit ==
    /\ vmWat.family = "gcd" /\ vmPc = "main"
    /\ vmLocal' = [vmLocal EXCEPT !["a"] = vmWat.args[1], !["b"] = vmWat.args[2]]
    /\ vmPc' = "loop"
    /\ UNCHANGED <<vmSrc, vmWat, vmN, vmI, vmResult>>

\* lines 433-447: one pass of the loop
GcdLoop ==
    /\ vmWat.family = "gcd" /\ vmPc = "loop"
    /\ IF I32Eq(vmLocal["b"], 0)
       THEN vmPc' = "exit" /\ UNCHANGED <<vmSrc, vmWat, vmN, vmI, vmResult, vmLocal>>
       ELSE /\ vmLocal' = [vmLocal EXCEPT
                              !["temp"] = I32RemS(vmLocal["a"], vmLocal["b"]),
                              !["a"] = vmLocal["b"],
                              !["b"] = I32RemS(vmLocal["a"], vmLocal["b"])]
            /\ UNCHANGED <<vmSrc, vmWat, vmPc, vmN, vmI, vmResult>>

\* line 449: (local.get $a) ends the function
GcdResult ==
    /\ vmWat.family = "gcd" /\ vmPc = "exit"
    /\ VmReturn(vmLocal["a"])

\* line 299: (local.set $n (i32.const {value}))
DigitalRootInit ==
    /\ vmWat.family = "digital_root" /\ vmPc = "main"
    /\ vmN' = vmWat.args[1]
    /\ vmPc' = "outer"
    /\ UNCHANGED <<vmSrc, vmWat, vmI, vmResult, vmLocal>>

\* the outer loop left only below 100
DigitalRootExitBelow100 ==
    /\ vmWat.family = "digital_root" /\ vmPc = "outer"
    /\ IF I32LtS(vmN, 100)
       THEN vmPc' = "exit" /\ UNCHANGED <<vmSrc, vmWat, vmN, vmI, vmResult, vmLocal>>
       ELSE /\ vmLocal' = [vmLocal EXCEPT !["sum"] = 0]
            /\ vmPc' = "inner"
            /\ UNCHANGED <<vmSrc, vmWat, vmN, vmI, vmResult>>

\* lines 303-308: the head of the outer loop
DigitalRootOuter ==
    /\ vmWat.family = "digital_root" /\ vmPc = "outer"
    /\ IF I32LtS(vmN, 10)
       THEN vmPc' = "exit" /\ UNCHANGED <<vmSrc, vmWat, vmN, vmI, vmResult, vmLocal>>
       ELSE /\ vmLocal' = [vmLocal EXCEPT !["sum"] = 0]
            /\ vmPc' = "inner"
            /\ UNCHANGED <<vmSrc, vmWat, vmN, vmI, vmResult>>

\* lines 310-328: one pass of the inner loop, or its exit, after which n
\* is the sum and the outer loop continues
DigitalRootInner ==
    /\ vmWat.family = "digital_root" /\ vmPc = "inner"
    /\ IF I32Eq(vmN, 0)
       THEN /\ vmN' = vmLocal["sum"]
            /\ vmPc' = "outer"
            /\ UNCHANGED <<vmSrc, vmWat, vmI, vmResult, vmLocal>>
       ELSE /\ vmLocal' = [vmLocal EXCEPT
                              !["digit"] = I32RemS(vmN, 10),
                              !["sum"] = I32Add(vmLocal["sum"], I32RemS(vmN, 10))]
            /\ vmN' = I32DivS(vmN, 10)
            /\ UNCHANGED <<vmSrc, vmWat, vmPc, vmI, vmResult>>

\* line 332: (local.get $n) ends the function
DigitalRootResult ==
    /\ vmWat.family = "digital_root" /\ vmPc = "exit"
    /\ VmReturn(vmN)

\* line 348: (local.set $n (i32.const {value}))
FibonacciInit ==
    /\ vmWat.family = "fibonacci" /\ vmPc = "main"
    /\ vmN' = vmWat.args[1]
    /\ vmPc' = "base"
    /\ UNCHANGED <<vmSrc, vmWat, vmI, vmResult, vmLocal>>

\* the base case taken up to n = 2
FibonacciBaseUpToTwo ==
    /\ vmWat.family = "fibonacci" /\ vmPc = "base"
    /\ IF I32LeS(vmN, 2) THEN VmReturn(vmN)
       ELSE /\ vmLocal' = [vmLocal EXCEPT !["a"] = 0, !["b"] = 1]
            /\ vmI' = 2
            /\ vmPc' = "loop"
            /\ UNCHANGED <<vmSrc, vmWat, vmN, vmResult>>

\* lines 350-358: the base cases, else $a, $b and $i are set
FibonacciBase ==
    /\ vmWat.family = "fibonacci" /\ vmPc = "base"
    /\ IF I32LeS(vmN, 1) THEN VmReturn(vmN)
       ELSE /\ vmLocal' = [vmLocal EXCEPT !["a"] = 0, !["b"] = 1]
            /\ vmI' = 2
            /\ vmPc' = "loop"
            /\ UNCHANGED <<vmSrc, vmWat, vmN, vmResult>>

\* lines 361-374: one pass of the loop, which is left when i > n
FibonacciLoop ==
    /\ vmWat.family = "fibonacci" /\ vmPc = "loop"
    /\ vmLocal' = [vmLocal EXCEPT
                      !["temp"] = I32Add(vmLocal["a"], vmLocal["b"]),
                      !["a"] = vmLocal["b"],
                      !["b"] = I32Add(vmLocal["a"], vmLocal["b"])]
    /\ vmI' = I32Add(vmI, 1)
    /\ vmPc' = IF I32LeS(I32Add(vmI, 1), vmN) THEN "loop" ELSE "exit"
    /\ UNCHANGED <<vmSrc, vmWat, vmN, vmResult>>

\* line 376: (local.get $b) ends the function
FibonacciResult ==
    /\ vmWat.family = "fibonacci" /\ vmPc = "exit"
    /\ VmReturn(vmLocal["b"])

\* lines 390-392: $n, $result and $i are set
FactorialInit ==
    /\ vmWat.family = "factorial" /\ vmPc = "main"
    /\ vmN' = vmWat.args[1]
    /\ vmLocal' = [vmLocal EXCEPT !["result"] = 1]
    /\ vmI' = 1
    /\ vmPc' = "base"
    /\ UNCHANGED <<vmSrc, vmWat, vmResult>>

\* lines 395-397: 0! = 1
FactorialZero ==
    /\ vmWat.family = "factorial" /\ vmPc = "base"
    /\ IF I32Eq(vmN, 0) THEN VmReturn(1)
       ELSE vmPc' = "loop" /\ UNCHANGED <<vmSrc, vmWat, vmN, vmI, vmResult, vmLocal>>

\* the loop left one pass early
FactorialLoopBelowN ==
    /\ vmWat.family = "factorial" /\ vmPc = "loop"
    /\ vmLocal' = [vmLocal EXCEPT !["result"] = I32Mul(vmLocal["result"], vmI)]
    /\ vmI' = I32Add(vmI, 1)
    /\ vmPc' = IF I32LtS(I32Add(vmI, 1), vmN) THEN "loop" ELSE "exit"
    /\ UNCHANGED <<vmSrc, vmWat, vmN, vmResult>>

\* lines 400-409: one pass of the loop, which is left when i > n
FactorialLoop ==
    /\ vmWat.family = "factorial" /\ vmPc = "loop"
    /\ vmLocal' = [vmLocal EXCEPT !["result"] = I32Mul(vmLocal["result"], vmI)]
    /\ vmI' = I32Add(vmI, 1)
    /\ vmPc' = IF I32LeS(I32Add(vmI, 1), vmN) THEN "loop" ELSE "exit"
    /\ UNCHANGED <<vmSrc, vmWat, vmN, vmResult>>

\* line 411: (local.get $result) ends the function
FactorialResult ==
    /\ vmWat.family = "factorial" /\ vmPc = "exit"
    /\ VmReturn(vmLocal["result"])

---------------------------------------------------------------------------
(* Specifications                                                          *)

NormNext == Normalize /\ UNCHANGED <<gvars, cvars, mvars>>

NormInit == NormStart /\ GenIdle /\ CompStart /\ VmIdle

SpecNormalize == NormInit /\ [][NormNext]_vars

GenNext == Generate /\ UNCHANGED <<nvars, cvars, mvars>>

GenInit == NormIdle /\ GenStart /\ CompStart /\ VmIdle

SpecGenerate == GenInit /\ [][GenNext]_vars

VmNext ==
    \/ PrimeSetN /\ UNCHANGED <<nvars, gvars, cvars>>
    \/ PrimeLessThanTwo /\ UNCHANGED <<nvars, gvars, cvars>>
    \/ PrimeEqualsTwo /\ UNCHANGED <<nvars, gvars, cvars>>
    \/ PrimeEven /\ UNCHANGED <<nvars, gvars, cvars>>
    \/ PrimeSetI /\ UNCHANGED <<nvars, gvars, cvars>>
    \/ PrimeLoop /\ UNCHANGED <<nvars, gvars, cvars>>
    \/ PrimeIsPrime /\ UNCHANGED <<nvars, gvars, cvars>>
    \/ StubMain /\ UNCHANGED <<nvars, gvars, cvars>>
    \/ CollatzInit /\ UNCHANGED <<nvars, gvars, cvars>>
    \/ CollatzLoop /\ UNCHANGED <<nvars, gvars, cvars>>
    \/ CollatzSteps /\ UNCHANGED <<nvars, gvars, cvars>>
    \/ GcdInit /\ UNCHANGED <<nvars, gvars, cvars>>
    \/ GcdLoop /\ UNCHANGED <<nvars, gvars, cvars>>
    \/ GcdResult /\ UNCHANGED <<nvars, gvars, cvars>>
    \/ DigitalRootInit /\ UNCHANGED <<nvars, gvars, cvars>>
    \/ DigitalRootOuter /\ UNCHANGED <<nvars, gvars, cvars>>
    \/ DigitalRootInner /\ UNCHANGED <<nvars, gvars, cvars>>
    \/ DigitalRootResult /\ UNCHANGED <<nvars, gvars, cvars>>
    \/ FibonacciInit /\ UNCHANGED <<nvars, gvars, cvars>>
    \/ FibonacciBase /\ UNCHANGED <<nvars, gvars, cvars>>
    \/ FibonacciLoop /\ UNCHANGED <<nvars, gvars, cvars>>
    \/ FibonacciResult /\ UNCHANGED <<nvars, gvars, cvars>>
    \/ FactorialInit /\ UNCHANGED <<nvars, gvars, cvars>>
    \/ FactorialZero /\ UNCHANGED <<nvars, gvars, cvars>>
    \/ FactorialLoop /\ UNCHANGED <<nvars, gvars, cvars>>
    \/ FactorialResult /\ UNCHANGED <<nvars, gvars, cvars>>

VmInit == NormIdle /\ GenIdle /\ CompStart /\ VmStart

SpecWat == VmInit /\ [][VmNext]_vars

Init == NormIdle /\ GenIdle /\ CompStart /\ VmIdle

Next ==
    \/ \E c \in Calls : Call(c) /\ UNCHANGED <<nvars, gvars, mvars>>
    \/ \E c \in Calls : MakeTmp(c) /\ UNCHANGED <<nvars, gvars, mvars>>
    \/ \E c \in Calls : MakeTmpFails(c) /\ UNCHANGED <<nvars, gvars, mvars>>
    \/ \E c \in Calls : WriteTmp(c) /\ UNCHANGED <<nvars, gvars, mvars>>
    \/ \E c \in Calls : WriteTmpFails(c) /\ UNCHANGED <<nvars, gvars, mvars>>
    \/ \E c \in Calls : MakeDirs(c) /\ UNCHANGED <<nvars, gvars, mvars>>
    \/ \E c \in Calls : MakeDirsFails(c) /\ UNCHANGED <<nvars, gvars, mvars>>
    \/ \E c \in Calls : OpenFinal(c) /\ UNCHANGED <<nvars, gvars, mvars>>
    \/ \E c \in Calls : OpenFinalFails(c) /\ UNCHANGED <<nvars, gvars, mvars>>
    \/ \E c \in Calls : WriteFinal(c) /\ UNCHANGED <<nvars, gvars, mvars>>
    \/ \E c \in Calls : WriteFinalFails(c) /\ UNCHANGED <<nvars, gvars, mvars>>
    \/ \E c \in Calls : Return(c) /\ UNCHANGED <<nvars, gvars, mvars>>

Spec == Init /\ [][Next]_vars

---------------------------------------------------------------------------
(* Claims                                                                  *)

\* C1: normalisation is idempotent: transform_for_zkengine applied to the
\* text it returned gives that text back with an empty change list.
C1_Idempotent == nRuns = 2 => (nCode = nPrev /\ nChanges = <<>>)

\* C2: every candidate assignment is probed before the call form: the value
\* of a selected family is the literal of its highest-priority assigned
\* candidate, the call literal only when no candidate is assigned, and the
\* default only when neither exists.
C2_AssignmentBeforeCall ==
    gWat.family \in UnaryFamilies
        => gWat.args[1] = PrecedenceValue(gCode, gWat.family)

\* C3: the emitted module is that of the highest-priority family whose cue
\* the text contains (primality, Collatz, digital root, Fibonacci,
\* factorial, GCD, else the stub), with the parameter of that family's own
\* catalogue entry.
C3_PriorityOrder ==
    gWat # NoWat => gWat = CatalogWat(TopFamily(gCode), gCode)

\* C3 witness: a text with a primality, a Collatz and a GCD cue has been
\* turned into the primality module.
C3_Witness ==
    /\ gWat.family = "prime"
    /\ CuePresent("collatz", gCode)
    /\ CuePresent("gcd", gCode)

\* the calls that have returned, and those that returned success
Returned == {c \in Calls : pc[c] = "done"}

Succeeded == {c \in Returned : result[c].success}

\* the files that exist inside the shared output directory, at any depth
OutputFiles == {q \in DOMAIN fsFiles : IsPrefix(WasmDirPath, q) /\ q # WasmDirPath}

\* the 8 characters of a suffix are hexadecimal digits
IsHex8(u) ==
    /\ Len(u) = 8
    /\ \A k \in 1..8 : Ch(u, k) \in Digits \cup {"a", "b", "c", "d", "e", "f"}

\* C4: a text with none of the six cues is never an error: a call on it
\* that returns success carries the stub module, whose main returns 42, as
\* wat_content, and a call that does not return success failed at a file
\* system step.
C4_MissIsNotAnError ==
    \A c \in Returned :
        TopFamily(req[c].code) = "default"
            => IF result[c].success
               THEN /\ result[c].wat_content = Wat("default", <<>>)
                    /\ DefaultMain = 42
               ELSE result[c].error \in {"OSError", "FileNotFoundError"}

\* C4 witness: a call on a text without a cue has returned success with the
\* stub module.
C4_Witness ==
    \E c \in Succeeded :
        /\ CuesIn(req[c].code) = {}
        /\ result[c].wat_content.family = "default"

\* C5: no two calls write to the same path of the output directory: every
\* successful call returns a wasm_file different from that of every other
\* successful call.
C5_DistinctNames ==
    \A c, d \in Succeeded : c # d => result[c].wasm_file # result[d].wasm_file

\* C6: no exception reaches the caller: a failing step gives a result with
\* success false, an error description and none of wat_content, wasm_file,
\* wasm_size; a result with success true carries all three.
C6_StructuredResult ==
    \A c \in Calls :
        /\ pc[c] # "crashed"
        /\ pc[c] = "done" =>
              LET response == compile_transformed(result[c])
              IN  IF result[c].success
                  THEN /\ DOMAIN result[c] =
                              {"success", "wat_content", "wasm_file", "wasm_size"}
                       /\ response = result[c]
                  ELSE /\ DOMAIN result[c] = {"success", "error"}
                       /\ result[c].error # ""
                       /\ response = result[c]

\* C6 witness: a call whose step failed has returned the failure, and
\* another has returned success.
C6_Witness ==
    /\ \E c \in Returned : ~result[c].success /\ result[c].error = "OSError"
    /\ Succeeded # {}

\* C7: on every exit path the workspace of a call is gone, with all it
\* holds, in the state in which the call has returned, and no two calls
\* under way hold the same workspace.
C7_WorkspaceReleased ==
    /\ [][\A c \in Calls :
             (pc[c] # "done" /\ pc'[c] = "done" /\ tmpdir[c] # "")
                 => \A q \in fsDirs' \cup DOMAIN fsFiles' :
                        ~IsPrefix(PathOf(tmpdir[c]), q)]_vars
    /\ [](\A c, d \in Calls :
             (c # d /\ tmpdir[c] # "") => tmpdir[c] # tmpdir[d])

\* C7 witness: a call that failed at the final write (its file is left
\* empty) has returned, as has a call that succeeded, and /tmp holds no
\* directory.
C7_Witness ==
    /\ \E c \in Returned :
          /\ ~result[c].success
          /\ \E q \in DOMAIN fsFiles :
                fsFiles[q].writer = c /\ fsFiles[q].content = NoWat
    /\ Succeeded # {}
    /\ \A q \in fsDirs : ~(IsPrefix(<<"tmp">>, q) /\ Len(q) > 1)

C9_OneFilePerSuccess ==
    (\A c \in Calls : pc[c] \in {"idle", "done"}) =>
        /\ \A q \in OutputFiles :
              /\ Len(q) = Len(WasmDirPath) + 1
              /\ fsFiles[q].writer \in Succeeded
              /\ \E c \in Succeeded :
                    /\ Last(q) = result[c].wasm_file
                    /\ fsFiles[q].content = result[c].wat_content
        /\ \A c \in Succeeded :
              /\ Append(WasmDirPath, result[c].wasm_file) \in OutputFiles
              /\ \E u \in {SubSeq(result[c].wasm_file,
                                  Len(result[c].wasm_file) - 11,
                                  Len(result[c].wasm_file) - 4)} :
                    /\ IsHex8(u)
                    /\ result[c].wasm_file
                           = base_name(req[c].filename) \o "_" \o u \o ".wat"
        /\ Cardinality(OutputFiles) = Cardinality(Succeeded)

\* C10: main of the primality module returns 1 exactly when its constant n
\* is prime and 0 otherwise, the constant being the extracted one, and the
\* trial division stops at the first odd candidate whose square exceeds n.
C10_TrialDivision ==
    /\ vmWat.family = "prime" /\ vmPc = "returned"
           => vmResult = IF IsPrime(vmN) THEN 1 ELSE 0
    /\ vmWat.family = "prime" /\ vmPc = "loop" /\ vmI > 3
           => (vmI - 2) <= vmN \div (vmI - 2)

\* natural numbers beyond the i32 range, as the pair of n \div 2^20 and
\* n % 2^20
Wide(n) == <<n \div 1048576, n % 1048576>>

\* one transition (n / 2 if n is even, 3n + 1 if odd); 1 is left at 1
WideStep(w) ==
    IF w = Wide(1) THEN w
    ELSE IF w[2] % 2 = 0
         THEN <<w[1] \div 2, ((w[1] % 2) * 1048576 + w[2]) \div 2>>
         ELSE <<3 * w[1] + ((3 * w[2] + 1) \div 1048576), (3 * w[2] + 1) % 1048576>>

\* the number reached after k transitions
RECURSIVE WideAfter(_, _)
WideAfter(w, k) ==
    IF k = 0 THEN w
    ELSE IF k = 1 THEN WideStep(w)
    ELSE LET half == WideAfter(w, k \div 2)
         IN  IF half[1] >= 0 THEN WideAfter(half, k - (k \div 2)) ELSE half

\* the least k in lo..hi after which 1 is reached, 1 being reached after hi
RECURSIVE FirstAtOne(_, _, _)
FirstAtOne(w, lo, hi) ==
    IF lo = hi THEN lo
    ELSE LET mid == (lo + hi) \div 2
         IN  IF WideAfter(w, mid) = Wide(1) THEN FirstAtOne(w, lo, mid)
             ELSE FirstAtOne(w, mid + 1, hi)

\* the transitions from n to 1; 1001 when there are more than 1000
TransitionsToOne(n) ==
    IF WideAfter(Wide(n), 1000) = Wide(1) THEN FirstAtOne(Wide(n), 0, 1000)
    ELSE 1001

\* C11: main of the Collatz module returns the number of transitions from
\* its starting value n >= 1 to 1 when that number is within the cutoff:
\* 8 for 6, 0 for 1.
C11_CollatzSteps ==
    (vmWat.family = "collatz" /\ vmPc = "returned" /\ vmWat.args[1] >= 1
        /\ TransitionsToOne(vmWat.args[1]) <= 1000)
            => vmResult = TransitionsToOne(vmWat.args[1])

\* the literals the text assigns to one of the names
AssignedTo(code, names) ==
    {AssignValue(code, names[k]) : k \in 1..Len(names)} \ {NoMatch}

\* an operand as stated: the literal assigned to one of its names, else
\* its default
StatedOperand(code, names, default) ==
    IF AssignedTo(code, names) = {} THEN {default} ELSE AssignedTo(code, names)

\* d divides n
Divides(d, n) == n % d = 0

\* g is the greatest common divisor of a and b (that of 0 and 0 is 0)
IsGcd(g, a, b) ==
    IF a = 0 /\ b = 0 THEN g = 0
    ELSE /\ g > 0 /\ Divides(g, a) /\ Divides(g, b)
         /\ \A d \in (g + 1)..Max({a, b}) : ~(Divides(d, a) /\ Divides(d, b))

\* C12: the operands of the GCD module are extracted independently (the
\* first from an assignment to a, x or first, else 48; the second from an
\* assignment to b, y or second, else 18), and main returns their greatest
\* common divisor, the other operand when one is 0; each pass of the loop
\* makes the second operand smaller, so the loop ends.
C12_GcdOperands ==
    /\ [](vmWat.family = "gcd" =>
            /\ vmWat.args[1] \in StatedOperand(vmSrc, <<"a", "x", "first">>, 48)
            /\ vmWat.args[2] \in StatedOperand(vmSrc, <<"b", "y", "second">>, 18)
            /\ vmPc = "returned" =>
                  /\ IsGcd(vmResult, vmWat.args[1], vmWat.args[2])
                  /\ vmWat.args[1] = 0 => vmResult = vmWat.args[2]
                  /\ vmWat.args[2] = 0 => vmResult = vmWat.args[1])
    /\ [][(vmWat.family = "gcd" /\ vmPc = "loop" /\ vmPc' = "loop")
             => (0 <= vmLocal'["b"] /\ vmLocal'["b"] < vmLocal["b"])]_vars

\* C12 witness: the text assigns a = 48 and no second operand, and main has
\* returned 6.
C12_Witness ==
    /\ vmSrc = "gcd a = 48;"
    /\ vmWat.args = <<48, 18>>
    /\ vmPc = "returned"
    /\ vmResult = 6

\* the positions at which pat occurs in s
Occurrences(s, pat) == {i \in 1..Len(s) : StartsAt(s, pat, i)}

\* the text uses a native int or float declaration keyword
UsesNativeType(s) == ReSearch("int", s) \/ ReSearch("float", s)

\* the fixed-width include of the text at position q comes immediately
\* after the last other include directive: first in the text when there is
\* none, else on the line that follows it
AfterLastInclude(s, q) ==
    LET others == Occurrences(s, "#include") \ {q}
    IN  IF others = {} THEN q = 1
        ELSE /\ Max(others) < q
             /\ Occurrences(SubSeq(s, Max(others), q - 1), "\n")
                    = {q - Max(others)}

\* C13: a source that uses a native int or float declaration and has no
\* fixed-width include gets exactly one, immediately after its last include
\* directive (at the top if it has none); a source that has the include
\* gets no other; and the returned text has no native int or float
\* declaration keyword left.
C13_IncludeAndNarrowing ==
    nRuns = 1 =>
        /\ (UsesNativeType(nPrev) /\ ~Contains(nPrev, StdintInclude))
              => /\ Cardinality(Occurrences(nCode, StdintInclude)) = 1
                 /\ AfterLastInclude(nCode, Find(nCode, StdintInclude, 1))
        /\ Contains(nPrev, StdintInclude)
              => Cardinality(Occurrences(nCode, StdintInclude))
                     = Cardinality(Occurrences(nPrev, StdintInclude))
        /\ ~UsesNativeType(nCode)

\* C14: the Collatz module stops at the cutoff: the loop makes at most 1000
\* transitions and main returns a step count of at most 1000, whatever the
\* starting value.
C14_CutoffAt1000 ==
    vmWat.family = "collatz" =>
        /\ vmLocal["steps"] <= 1000
        /\ vmPc = "returned" => vmResult <= 1000

\* the cue of a family as the catalogue states it: in any letter case for
\* the Collatz and digital-root families, in lower case for the others
StatedCue(family, code) ==
    CASE family = "collatz"      -> Contains(Lower(code), "collatz")
      [] family = "digital_root" -> Contains(Lower(code), "digital_root")
                                        \/ Contains(Lower(code), "digit_sum")
      [] OTHER                   -> CuePresent(family, code)

\* C15: the Collatz cue and the digital-root/digit-sum cue select their
\* family in any letter case, and the primality, Fibonacci, factorial and
\* GCD cues only in lower case: the family generated is the first family of
\* the priority order whose cue, read that way, is in the text.
C15_CaseSensitivity ==
    gWat # NoWat =>
        \A i \in 1..Len(Priority) :
            (/\ StatedCue(Priority[i], gCode)
             /\ \A j \in 1..(i - 1) : ~StatedCue(Priority[j], gCode))
                => gWat.family = Priority[i]

\* the change list of the last run has the entry e
Logged(e) == \E i \in 1..Len(nChanges) : nChanges[i] = e

\* C16: every entry of the change list describes a rewrite that was applied
\* to the text: the narrowing entry is there only if an int or float keyword
\* was replaced, the printf entry only if a formatted-output call was found
\* and replaced, the scanf entry only if a formatted-input call was found
\* and replaced, and a text returned unchanged has an empty change list.
C16_EntriesDescribeRewrites ==
    nRuns >= 1 =>
        /\ Logged("Converted int/float to int32_t") => UsesNativeType(nPrev)
        /\ Logged("Removed printf statements") => ReSearch("printf", nPrev)
        /\ Logged("Removed scanf statements") => ReSearch("scanf", nPrev)
        /\ nCode = nPrev => nChanges = <<>>

\* the sum of the base-10 digits of n
RECURSIVE DigitSum(_)
DigitSum(n) == IF n < 10 THEN n ELSE (n % 10) + DigitSum(n \div 10)

\* n replaced by the sum of its digits until it is below 10
RECURSIVE RepeatedDigitSum(_)
RepeatedDigitSum(n) == IF n < 10 THEN n ELSE RepeatedDigitSum(DigitSum(n))

\* what the digital-root loops have left to do: n at the head of the outer
\* loop, the sum so far plus the digits still to add inside the inner loop
DigitalRootMeasure(at, n, sum) == IF at = "inner" THEN sum + n ELSE n

\* C17: for every non-negative n the digital-root module returns the single
\* digit to which repeated digit summing brings n, i.e. 0 for 0 and
\* 1 + (n-1) mod 9 otherwise; a value below 10 never enters the digit-sum
\* loop; and the module terminates: a pass of the inner loop makes n
\* smaller, and no step makes what is left to do larger, a pass on a value
\* of two digits or more making it smaller.
C17_DigitalRoot ==
    /\ [](vmWat.family = "digital_root" /\ vmWat.args[1] >= 0 =>
            /\ vmPc = "returned" =>
                  /\ vmResult \in 0..9
                  /\ vmResult = RepeatedDigitSum(vmWat.args[1])
                  /\ vmResult = IF vmWat.args[1] = 0 THEN 0
                                ELSE 1 + ((vmWat.args[1] - 1) % 9)
            /\ vmPc = "inner" => vmWat.args[1] >= 10
            /\ (vmPc = "returned" /\ vmWat.args[1] < 10) =>
                  (vmResult = vmWat.args[1] /\ vmLocal = ZeroLocals))
    /\ [][(vmWat.family = "digital_root" /\ vmPc \in {"outer", "inner"}
              /\ vmPc' \in {"outer", "inner"}) =>
            /\ DigitalRootMeasure(vmPc', vmN', vmLocal'["sum"])
                  <= DigitalRootMeasure(vmPc, vmN, vmLocal["sum"])
            /\ (vmPc = "inner" /\ vmPc' = "inner") =>
                  /\ 0 <= vmN' /\ vmN' < vmN
                  /\ vmN >= 10 =>
                        DigitalRootMeasure(vmPc', vmN', vmLocal'["sum"])
                            < DigitalRootMeasure(vmPc, vmN, vmLocal["sum"])
            /\ (vmPc = "outer" /\ vmPc' = "inner") => vmN >= 10]_vars

\* the default 12345 has been brought to 6
C17_Witness ==
    /\ vmSrc = "digit_sum()"
    /\ vmWat = Wat("digital_root", <<12345>>)
    /\ vmPc = "returned"
    /\ vmResult = 6
    /\ vmLocal["digit"] = 1

\* the pair F(k-1), F(k) of Fibonacci numbers, F(0) = 0 and F(1) = 1
RECURSIVE FibPair(_)
FibPair(k) ==
    IF k <= 1 THEN <<0, 1>>
    ELSE LET p == FibPair(k - 1)
         IN  IF p[1] >= 0 THEN <<p[2], p[1] + p[2]>> ELSE p

Fib(k) == IF k = 0 THEN 0 ELSE FibPair(k)[2]

\* C18: for every n from 0 to 46 the Fibonacci module returns n itself when
\* n is 0 or 1 and the n-th Fibonacci number otherwise; the loop is entered
\* only for n >= 2 and runs exactly n-1 times: it is first entered with
\* i = 2, every pass adds 1 to i and holds b = F(i-1) and a = F(i-2), and
\* it is left when i = n+1.
C18_Fibonacci ==
    /\ [](vmWat.family = "fibonacci" /\ vmWat.args[1] \in 0..46 =>
            /\ vmPc = "returned" =>
                  /\ vmResult = Fib(vmWat.args[1])
                  /\ vmWat.args[1] <= 1 =>
                        (vmResult = vmWat.args[1] /\ vmLocal = ZeroLocals /\ vmI = 0)
                  /\ vmWat.args[1] >= 2 => vmI - 2 = vmWat.args[1] - 1
            /\ vmPc \in {"loop", "exit"} =>
                  /\ vmWat.args[1] >= 2
                  /\ vmI \in 2..(vmWat.args[1] + 1)
                  /\ vmLocal["b"] = Fib(vmI - 1)
                  /\ vmLocal["a"] = Fib(vmI - 2)
                  /\ vmPc = "exit" <=> vmI = vmWat.args[1] + 1)
    /\ [][(vmWat.family = "fibonacci" /\ vmPc = "loop") => vmI' = vmI + 1]_vars

\* the default n = 10 has returned 55 after nine passes
C18_Witness ==
    /\ vmSrc = "fibonacci()"
    /\ vmWat = Wat("fibonacci", <<10>>)
    /\ vmPc = "returned"
    /\ vmResult = 55
    /\ vmI = 11

\* the product of the integers 1 through n
RECURSIVE Factorial(_)
Factorial(n) == IF n <= 1 THEN 1 ELSE n * Factorial(n - 1)

\* C19: for every n from 0 to 12 the factorial module returns 1 when n is 0
\* and the product 1 * 2 * ... * n otherwise; its loop terminates: every
\* pass adds 1 to i, which stays within 1..n+1, and the loop is left when
\* i = n+1, after n passes.
C19_Factorial ==
    /\ [](vmWat.family = "factorial" /\ vmWat.args[1] \in 0..12 =>
            /\ vmPc = "returned" =>
                  /\ vmResult = Factorial(vmWat.args[1])
                  /\ vmWat.args[1] = 0 => (vmResult = 1 /\ vmI = 1)
            /\ vmPc \in {"loop", "exit"} =>
                  /\ vmWat.args[1] >= 1
                  /\ vmI \in 1..(vmWat.args[1] + 1)
                  /\ vmLocal["result"] = Factorial(vmI - 1)
                  /\ vmPc = "exit" <=> vmI = vmWat.args[1] + 1)
    /\ [][(vmWat.family = "factorial" /\ vmPc = "loop") => vmI' = vmI + 1]_vars

\* the default n = 5 has returned 120 after five passes
C19_Witness ==
    /\ vmSrc = "factorial()"
    /\ vmWat = Wat("factorial", <<5>>)
    /\ vmPc = "returned"
    /\ vmResult = 120
    /\ vmI = 6

====
